---- MODULE Spec2Model ----
(***************************************************************************)
(* NoTorch: the reverse-mode automatic differentiation engine of           *)
(* NoTorch/tensor.py (class Tensor) and the modules of NoTorch/nn.py       *)
(* (Module, Dense, MLP).                                                   *)
(*                                                                         *)
(* Numbers.  Tensor elements are numpy long doubles.  They are modelled    *)
(* as exact rationals <<n, d>> (d > 0, lowest terms); the operations are   *)
(* enabled only on inputs whose results are such numbers (an operation     *)
(* whose result is not, such as the logarithm of 2, yields the marker      *)
(* "Unmodelled" and the action that would perform it is disabled).         *)
(*                                                                         *)
(* Arrays.  A numpy array is [sh |-> shape, el |-> elements in row-major   *)
(* order], of one or two dimensions.                                       *)
(*                                                                         *)
(* Python values.  An operand handed to an operator is a tagged record:    *)
(*   [k |-> "num", v |-> q]      an int or a float                         *)
(*   [k |-> "list", v |-> seq]   a list of numbers                         *)
(*   [k |-> "arr", v |-> array]  a float ndarray                           *)
(*   [k |-> "T", id |-> i]       a Tensor (by identity)                    *)
(*   [k |-> "str"]               a value of an unsupported type            *)
(***************************************************************************)
EXTENDS Integers, Sequences, FiniteSets, TLC

VARIABLES
    heap,       \* the Tensor objects constructed so far, by id:  id -> Tensor
    unique_id,  \* Tensor.unique_id: the next value of the itertools.count()
    mods,       \* the Module objects (Dense, MLP) constructed so far
    last,       \* the last call: its name, arguments, result, exception,
                \* and for backward the closures invoked, in order
    ncalls,     \* number of operator and module calls made so far
    nbackward   \* number of backward() and zero_grad() calls made so far

vars == <<heap, unique_id, mods, last, ncalls, nbackward>>

\* ------------------------------------------------------------------ bounds

\* Operator calls client code makes in a behaviour of Spec and of SpecVec.
MaxCalls == 3
\* Calls of any kind client code makes in a behaviour of Spec and of SpecVec.
MaxSteps == 4
\* The data of a Tensor an operator returns is modelled up to this magnitude
\* (of numerator and denominator), which keeps the arithmetic within TLC's
\* integers.
MaxValue == 100
\* Powers are modelled up to this magnitude of the exponent.
MaxExponent == 4
\* Operator calls, and calls of any kind, in a behaviour of SpecOps.
MaxOpCalls == 2
MaxOpSteps == 3
\* Calls client code makes in a behaviour of SpecNN.
MaxNNSteps == 4
MaxModules == 1
MaxNNBackward == 1

\* ----------------------------------------------------------------- numbers

Abs(x) == IF x < 0 THEN -x ELSE x

RECURSIVE GCD(_, _)
GCD(a, b) == IF b = 0 THEN a ELSE GCD(b, a % b)

\* The rational n/d in lowest terms with a positive denominator (d # 0).
Q(n, d) ==
    LET s == IF d < 0 THEN -1 ELSE 1
        g == GCD(Abs(n), Abs(d))
    IN  <<(s * n) \div g, (s * d) \div g>>

I(n) == <<n, 1>>

QAdd(a, b) == Q(a[1] * b[2] + b[1] * a[2], a[2] * b[2])
QMul(a, b) == Q(a[1] * b[1], a[2] * b[2])
QNeg(a) == <<-a[1], a[2]>>
QInv(a) == Q(a[2], a[1])
QIsInt(a) == a[2] = 1
QGt0(a) == a[1] > 0

RECURSIVE QPowNat(_, _)
QPowNat(a, e) == IF e = 0 THEN I(1) ELSE QMul(a, QPowNat(a, e - 1))

\* a ** b is modelled for an integer exponent b of magnitude up to
\* MaxExponent, and a # 0 when b < 0.
PowOk(a, b) == QIsInt(b) /\ Abs(b[1]) <= MaxExponent /\ (b[1] < 0 => a[1] # 0)
QPow(a, b) == IF b[1] >= 0 THEN QPowNat(a, b[1]) ELSE QPowNat(QInv(a), -b[1])

\* ------------------------------------------------------------------ arrays

Arr1(s) == [sh |-> <<Len(s)>>, el |-> s]
Vec(s) == Arr1([i \in 1..Len(s) |-> I(s[i])])
Mat(m, n, s) == [sh |-> <<m, n>>, el |-> [i \in 1..Len(s) |-> I(s[i])]]

Size(sh) == IF Len(sh) = 1 THEN sh[1] ELSE sh[1] * sh[2]
As2(sh) == IF Len(sh) = 1 THEN <<1, sh[1]>> ELSE sh
Max2(a, b) == IF a >= b THEN a ELSE b

\* numpy's broadcasting of two shapes.
BCompat(s1, s2) ==
    \A i \in 1..2 : As2(s1)[i] = As2(s2)[i] \/ As2(s1)[i] = 1 \/ As2(s2)[i] = 1
BShape(s1, s2) ==
    LET r == <<Max2(As2(s1)[1], As2(s2)[1]), Max2(As2(s1)[2], As2(s2)[2])>>
    IN  IF Len(s1) = 1 /\ Len(s2) = 1 THEN <<r[2]>> ELSE r

\* The element of array a at position (i, j) of a broadcast shape.
BElem(a, i, j) ==
    LET s == As2(a.sh)
    IN  a.el[((IF s[1] = 1 THEN 1 ELSE i) - 1) * s[2] + (IF s[2] = 1 THEN 1 ELSE j)]

\* An elementwise binary ufunc on broadcast operands (shapes compatible).
Zip(f(_, _), a, b) ==
    LET sh == BShape(a.sh, b.sh)
        s2 == As2(sh)
    IN  [sh |-> sh,
         el |-> [k \in 1..(s2[1] * s2[2]) |->
                    f(BElem(a, ((k - 1) \div s2[2]) + 1, ((k - 1) % s2[2]) + 1),
                      BElem(b, ((k - 1) \div s2[2]) + 1, ((k - 1) % s2[2]) + 1))]]

Map(f(_), a) == [sh |-> a.sh, el |-> [k \in 1..Len(a.el) |-> f(a.el[k])]]

np_add(a, b) == Zip(QAdd, a, b)
np_multiply(a, b) == Zip(QMul, a, b)
np_power(a, b) == Zip(QPow, a, b)
np_power_ok(a, b) ==
    LET s2 == As2(BShape(a.sh, b.sh))
    IN  \A i \in 1..s2[1], j \in 1..s2[2] : PowOk(BElem(a, i, j), BElem(b, i, j))

zeros_like(a) == [sh |-> a.sh, el |-> [k \in 1..Len(a.el) |-> I(0)]]
ones_like(a) == [sh |-> a.sh, el |-> [k \in 1..Len(a.el) |-> I(1)]]
Scalar0(q) == [sh |-> <<1>>, el |-> <<q>>]

RECURSIVE SumSeq(_)
SumSeq(s) == IF s = <<>> THEN I(0) ELSE QAdd(s[1], SumSeq(Tail(s)))


\* np.matmul(m, v) of a 2-D array (r, c) and a 1-D array (c): a 1-D array (r).
np_matmul(m, v) ==
    [sh |-> <<m.sh[1]>>,
     el |-> [i \in 1..m.sh[1] |->
                SumSeq([j \in 1..m.sh[2] |-> QMul(m.el[(i - 1) * m.sh[2] + j], v.el[j])])]]

\* np.matmul(m.T, g) of a 2-D array (r, c) and a 1-D array (r): a 1-D array (c).
np_matmul_T(m, g) ==
    [sh |-> <<m.sh[2]>>,
     el |-> [j \in 1..m.sh[2] |->
                SumSeq([i \in 1..m.sh[1] |-> QMul(m.el[(i - 1) * m.sh[2] + j], g.el[i])])]]

\* np.outer(g, v) of two 1-D arrays: a 2-D array (len g, len v).
np_outer(g, v) ==
    [sh |-> <<g.sh[1], v.sh[1]>>,
     el |-> [k \in 1..(g.sh[1] * v.sh[1]) |->
                QMul(g.el[((k - 1) \div v.sh[1]) + 1], v.el[((k - 1) % v.sh[1]) + 1])]]

RECURSIVE Concat(_)
Concat(ss) == IF ss = <<>> THEN <<>> ELSE Head(ss) \o Concat(Tail(ss))

Range(s) == {s[i] : i \in 1..Len(s)}

\* ------------------------------------------------------- Python-level values

None == [k |-> "None"]
TRef(i) == [k |-> "T", id |-> i]
Num(n) == [k |-> "num", v |-> I(n)]
NumQ(q) == [k |-> "num", v |-> q]
List(s) == [k |-> "list", v |-> s]
NdArr(a) == [k |-> "arr", v |-> a]
Str == [k |-> "str"]

\* The outcome of a call: the heap and the id counter it leaves, the value it
\* returns (r) and the exception it raises (e, "none" when it returns).
Ok(w, r) == [heap |-> w.heap, uid |-> w.uid, r |-> r, e |-> "none"]
Raise(w, e) == [heap |-> w.heap, uid |-> w.uid, r |-> None, e |-> e]
World(c) == [heap |-> c.heap, uid |-> c.uid]

\* --------------------------------------------------------------- class Tensor

\* Tensor._validate_init_input: the array a constructor argument stands for.
\* (The ndarray branch is that of a float array: the dtype assertion passes.)
validate_init_input_ok(v) == v.k \in {"num", "list", "arr"}
validate_init_input(v) ==
    CASE v.k = "num" -> Scalar0(v.v)
      [] v.k = "list" -> Vec(v.v)
      [] v.k = "arr" -> v.v

\* Tensor.__init__ given the validated data: the next id is drawn, the tuple of
\* children kept, the gradient zeroed, the set of predecessors built.  bw stands
\* for the closure the operator then stores in out._backward.
NewTensor(w, data, children, op, bw) ==
    Ok([heap |-> (w.uid :> [data |-> data,
                             id |-> w.uid,
                             children |-> children,
                             grad |-> zeros_like(data),
                             prev |-> Range(children),
                             backward |-> bw,
                             op |-> op]) @@ w.heap,
        uid |-> w.uid + 1],
       TRef(w.uid))

NoBackward == [rule |-> "None", args |-> <<>>]

\* Tensor(data): the constructor as client code calls it.
TensorInit(w, v) ==
    IF validate_init_input_ok(v)
    THEN NewTensor(w, validate_init_input(v), <<>>, "None", NoBackward)
    ELSE Raise(w, "AssertionError")

\* Tensor._validate_input
validate_input(w, v) ==
    CASE v.k = "arr" -> TensorInit(w, v)
      [] v.k = "T" -> Ok(w, v)
      [] v.k \in {"num", "list"} -> TensorInit(w, v)
      [] OTHER -> Raise(w, "NotImplementedError")

\* A binary operator after coercion: forward is the numpy call on the two data
\* arrays; numpy raises ValueError when the shapes do not broadcast.
BinaryOp(w, self, other, fwd(_, _), modelled(_, _), children(_), op) ==
    LET c == validate_input(w, other)
    IN  IF c.e # "none" THEN c
        ELSE LET a == c.heap[self].data
                 b == c.heap[c.r.id].data
             IN  IF ~BCompat(a.sh, b.sh) THEN Raise(World(c), "ValueError")
                 ELSE IF ~modelled(a, b) THEN Raise(World(c), "Unmodelled")
                 ELSE NewTensor(World(c), fwd(a, b), children(c.r.id), op,
                                [rule |-> op, args |-> <<self, c.r.id>>])

Always(a, b) == TRUE

\* Tensor.__add__
Tensor_add(w, self, other) ==
    LET children(o) == <<self, o>>
    IN  BinaryOp(w, self, other, np_add, Always, children, "+")

\* Tensor.__mul__
Tensor_mul(w, self, other) ==
    LET children(o) == <<self, o>>
    IN  BinaryOp(w, self, other, np_multiply, Always, children, "*")

\* Tensor.__pow__: only self is recorded as a child.  Modelled where both the
\* forward power and the power of the backward rule are rational numbers.
PowModelled(a, b) ==
    np_power_ok(a, b) /\ np_power_ok(a, np_add(b, Scalar0(I(-1))))

Tensor_pow(w, self, other) ==
    LET children(o) == <<self>>
    IN  BinaryOp(w, self, other, np_power, PowModelled, children, "pow")

\* Tensor.__rpow__
Tensor_rpow(w, self, other) ==
    LET c == validate_input(w, other)
    IN  IF c.e # "none" THEN c ELSE Tensor_pow(World(c), c.r.id, TRef(self))

\* A unary operator (no coercion: self is a Tensor).
UnaryOp(w, self, fwd(_), modelled(_), op) ==
    LET a == w.heap[self].data
    IN  IF ~modelled(a) THEN Raise(w, "Unmodelled")
        ELSE NewTensor(w, fwd(a), <<self>>, op, [rule |-> op, args |-> <<self>>])

AllEl(a, q) == \A k \in 1..Len(a.el) : a.el[k] = q

\* Tensor.log: np.log, modelled at 1, where it is 0.
LogModelled(a) == AllEl(a, I(1))
np_log(a) == zeros_like(a)
Tensor_log(w, self) == UnaryOp(w, self, np_log, LogModelled, "log")

\* Tensor.sigmoid: exp(x) / (exp(x) + 1), modelled at 0, where it is 1/2.
SigmoidModelled(a) == AllEl(a, I(0))
SigmoidFwd(a) == LET half(q) == Q(1, 2) IN Map(half, a)
Tensor_sigmoid(w, self) == UnaryOp(w, self, SigmoidFwd, SigmoidModelled, "sigmoid")

\* Tensor.relu: data * (data > 0)
Positive(q) == IF QGt0(q) THEN I(1) ELSE I(0)
ReluFwd(a) == LET f(q) == QMul(q, Positive(q)) IN Map(f, a)
AnyArr(a) == TRUE
Tensor_relu(w, self) == UnaryOp(w, self, ReluFwd, AnyArr, "relu")


\* Tensor.__neg__:  self * -1
Tensor_neg(w, self) == Tensor_mul(w, self, Num(-1))

\* Tensor.__radd__:  self + other
Tensor_radd(w, self, other) == Tensor_add(w, self, other)

\* Tensor.__rmul__:  self * other
Tensor_rmul(w, self, other) == Tensor_mul(w, self, other)

\* Python's  -other  for the operand of Tensor.__sub__.
PyNeg(w, other) ==
    CASE other.k = "num" -> Ok(w, NumQ(QNeg(other.v)))
      [] other.k = "arr" -> Ok(w, NdArr(Map(QNeg, other.v)))
      [] other.k = "T" -> Tensor_neg(w, other.id)
      [] OTHER -> Raise(w, "TypeError")

\* Tensor.__sub__:  self + (-other)
Tensor_sub(w, self, other) ==
    LET n == PyNeg(w, other)
    IN  IF n.e # "none" THEN n ELSE Tensor_add(World(n), self, n.r)

\* Python's  other + t  and  other * t  for a Tensor t on the right: a number,
\* a list or a str has no such operator for a Tensor, so Python calls
\* t.__radd__(other), t.__rmul__(other); a Tensor on the left uses its own
\* __add__, __mul__.  (An ndarray on the left is handled by numpy itself and
\* is not modelled.)
PyAddLeft(w, other, t) ==
    CASE other.k = "T" -> Tensor_add(w, other.id, TRef(t))
      [] other.k = "arr" -> Raise(w, "Unmodelled")
      [] OTHER -> Tensor_radd(w, t, other)

PyMulLeft(w, other, t) ==
    CASE other.k = "T" -> Tensor_mul(w, other.id, TRef(t))
      [] other.k = "arr" -> Raise(w, "Unmodelled")
      [] OTHER -> Tensor_rmul(w, t, other)

\* Tensor.__rsub__:  other + (-self)
Tensor_rsub(w, self, other) ==
    LET n == Tensor_neg(w, self)
    IN  IF n.e # "none" THEN n ELSE PyAddLeft(World(n), other, n.r.id)

\* Python's  other ** -1  for the operand of Tensor.__truediv__.
PyPowNeg1(w, other) ==
    CASE other.k = "num" ->
            IF other.v[1] = 0 THEN Raise(w, "ZeroDivisionError")
            ELSE Ok(w, NumQ(QInv(other.v)))
      [] other.k = "arr" ->
            IF \E k \in 1..Len(other.v.el) : other.v.el[k][1] = 0
            THEN Raise(w, "Unmodelled")
            ELSE Ok(w, NdArr(Map(QInv, other.v)))
      [] other.k = "T" -> Tensor_pow(w, other.id, Num(-1))
      [] OTHER -> Raise(w, "TypeError")

\* Tensor.__truediv__:  self * other**-1
Tensor_truediv(w, self, other) ==
    LET p == PyPowNeg1(w, other)
    IN  IF p.e # "none" THEN p ELSE Tensor_mul(World(p), self, p.r)

\* Tensor.__rtruediv__:  other * self**-1
Tensor_rtruediv(w, self, other) ==
    LET p == Tensor_pow(w, self, Num(-1))
    IN  IF p.e # "none" THEN p ELSE PyMulLeft(World(p), other, p.r.id)

\* Tensor.mat_vec_mul, modelled for a 2-D mat and a 1-D vec.
Tensor_mat_vec_mul(w, mat, vec) ==
    LET m == validate_input(w, mat)
    IN  IF m.e # "none" THEN m
        ELSE LET v == validate_input(World(m), vec)
             IN  IF v.e # "none" THEN v
                 ELSE LET a == v.heap[m.r.id].data
                          b == v.heap[v.r.id].data
                      IN  IF Len(a.sh) # 2 \/ Len(b.sh) # 1 THEN Raise(World(v), "Unmodelled")
                          ELSE IF a.sh[2] # b.sh[1] THEN Raise(World(v), "ValueError")
                          ELSE NewTensor(World(v), np_matmul(a, b), <<m.r.id, v.r.id>>,
                                         "mat_vec_mul",
                                         [rule |-> "mat_vec_mul", args |-> <<m.r.id, v.r.id>>])

\* Tensor.sum1d: the argument's .data is read as it is (a number, a list or a
\* str has none; an ndarray's .data is a buffer, which is not modelled).
Tensor_sum1d(w, tensor_in) ==
    CASE tensor_in.k = "T" ->
            LET a == w.heap[tensor_in.id].data
            IN  IF Len(a.sh) # 1 THEN Raise(w, "AssertionError")
                ELSE NewTensor(w, Arr1(<<SumSeq(a.el)>>), <<tensor_in.id>>, "sum1d",
                               [rule |-> "sum1d", args |-> <<tensor_in.id>>])
      [] tensor_in.k = "arr" -> Raise(w, "Unmodelled")
      [] OTHER -> Raise(w, "AttributeError")

\* Tensor.cat1d over a list of values, modelled for 1-D Tensors.
Tensor_cat1d(w, tensors) ==
    IF \E i \in 1..Len(tensors) : tensors[i].k \notin {"T", "arr"}
    THEN Raise(w, "AttributeError")
    ELSE IF \E i \in 1..Len(tensors) : tensors[i].k = "arr" THEN Raise(w, "Unmodelled")
    ELSE IF tensors = <<>> THEN Raise(w, "ValueError")
    ELSE IF \E i \in 1..Len(tensors) : Len(w.heap[tensors[i].id].data.sh) # 1
         THEN Raise(w, "Unmodelled")
    ELSE LET ids == [i \in 1..Len(tensors) |-> tensors[i].id]
         IN  NewTensor(w,
                       Arr1(Concat([i \in 1..Len(ids) |-> w.heap[ids[i]].data.el])),
                       ids, "cat1d", [rule |-> "cat1d", args |-> ids])


\* ------------------------------------------------- the _backward closures

\* The statements of the closure stored in heap[v].backward, in order: each
\* adds the array c in place to the grad of Tensor t.  Every right-hand side
\* reads only out.grad and data, never a grad the closure itself writes.
Stmt(t, c) == [t |-> t, c |-> c, e |-> "none"]

\* The closure of __add__
add_backward(h, out, self, other) ==
    <<Stmt(self, out.grad), Stmt(other, out.grad)>>

\* The closure of __mul__
mul_backward(h, out, self, other) ==
    <<Stmt(self, np_multiply(h[other].data, out.grad)),
      Stmt(other, np_multiply(h[self].data, out.grad))>>

\* The closure of __pow__: nothing is added to other.grad.
pow_backward(h, out, self, other) ==
    <<Stmt(self,
           np_multiply(
               np_multiply(h[other].data,
                           np_power(h[self].data, np_add(h[other].data, Scalar0(I(-1))))),
               out.grad))>>

\* The closure of log:  (1 / self.data) * out.grad
log_backward(h, out, self) ==
    <<Stmt(self, np_multiply(Map(QInv, h[self].data), out.grad))>>

\* The closure of sigmoid, at 0:  exp(0) / ((exp(0) + 1) * (exp(0) + 1)) = 1/4
sigmoid_backward(h, out, self) ==
    <<Stmt(self, np_multiply(Scalar0(Q(1, 4)), out.grad))>>

\* The closure of relu:  (out.data > 0) * out.grad
relu_backward(h, out, self) ==
    <<Stmt(self, np_multiply(Map(Positive, out.data), out.grad))>>

\* The closure of mat_vec_mul
mat_vec_mul_backward(h, out, mat, vec) ==
    <<Stmt(mat, np_outer(out.grad, h[vec].data)),
      Stmt(vec, np_matmul_T(h[mat].data, out.grad))>>

\* A sum1d closure that adds the sum itself instead of the gradient.
sum1d_backward_data(h, out, tensor_in) ==
    <<Stmt(tensor_in, np_add(zeros_like(h[tensor_in].grad), out.data))>>

\* The closure of sum1d:  np.full_like(tensor_in.grad, out.grad)
sum1d_backward(h, out, tensor_in) ==
    <<Stmt(tensor_in, np_add(zeros_like(h[tensor_in].grad), out.grad))>>

\* The closure of cat1d:  tensors[i].grad += out.grad[i]  for each index i of
\* tensors; out.grad[i] is one element of out.grad (IndexError past its end).
cat1d_backward(h, out, tensors) ==
    [i \in 1..Len(tensors) |->
        IF i <= Len(out.grad.el)
        THEN Stmt(tensors[i], Scalar0(out.grad.el[i]))
        ELSE [t |-> tensors[i], c |-> Scalar0(I(0)), e |-> "IndexError"]]

\* The statements of heap[v].backward.
Statements(h, v) ==
    LET out == h[v]
        a == out.backward.args
        rule == out.backward.rule
    IN  CASE rule = "+" -> add_backward(h, out, a[1], a[2])
          [] rule = "*" -> mul_backward(h, out, a[1], a[2])
          [] rule = "pow" -> pow_backward(h, out, a[1], a[2])
          [] rule = "log" -> log_backward(h, out, a[1])
          [] rule = "sigmoid" -> sigmoid_backward(h, out, a[1])
          [] rule = "relu" -> relu_backward(h, out, a[1])
          [] rule = "mat_vec_mul" -> mat_vec_mul_backward(h, out, a[1], a[2])
          [] rule = "sum1d" -> sum1d_backward(h, out, a[1])
          [] rule = "cat1d" -> cat1d_backward(h, out, a)
          [] OTHER -> <<>>

\* numpy's in-place  g += c : c must broadcast to the shape of g.
IAddOk(g, c) == BCompat(g.sh, c.sh) /\ BShape(g.sh, c.sh) = g.sh

\* The statements run in order; the first one that raises ends the closure.
RECURSIVE RunStatements(_, _)
RunStatements(h, stmts) ==
    IF stmts = <<>> THEN [heap |-> h, e |-> "none"]
    ELSE LET s == Head(stmts)
         IN  IF s.e # "none" THEN [heap |-> h, e |-> s.e]
             ELSE IF ~IAddOk(h[s.t].grad, s.c) THEN [heap |-> h, e |-> "ValueError"]
             ELSE RunStatements([h EXCEPT ![s.t].grad = np_add(@, s.c)], Tail(stmts))

\* v._backward()
CallBackward(h, v) == RunStatements(h, Statements(h, v))

\* ------------------------------------------------------------ Tensor.backward

\* The sequences that enumerate a set: the orders in which Python may iterate
\* over  set(v._children).
Enumerations(S) ==
    {s \in [1..Cardinality(S) -> S] : \A i, j \in 1..Cardinality(S) : s[i] = s[j] => i = j}

\* One iteration order for each Tensor of vs.
RECURSIVE IterationOrders(_, _)
IterationOrders(h, vs) ==
    IF vs = {} THEN {<<>>}
    ELSE LET v == CHOOSE x \in vs : TRUE
         IN  {(v :> s) @@ f : s \in Enumerations(h[v].prev),
                              f \in IterationOrders(h, vs \ {v})}

\* The Tensors reachable from v through _children.
RECURSIVE Reach(_, _)
Reach(h, v) == {v} \cup UNION {Reach(h, c) : c \in h[v].prev}

\* topological_sort(v), with st = [nodes, visited].
RECURSIVE topological_sort(_, _, _, _)
RECURSIVE SortChildren(_, _, _, _)

\* A sort that appends v before it has sorted the children of v.
topological_sort_preorder(h, ord, v, st) ==
    IF v \in st.visited THEN st
    ELSE SortChildren(h, ord, ord[v],
                      [nodes |-> Append(st.nodes, v), visited |-> st.visited \cup {v}])

topological_sort(h, ord, v, st) ==
    IF v \in st.visited THEN st
    ELSE LET s1 == SortChildren(h, ord, ord[v], [st EXCEPT !.visited = @ \cup {v}])
         IN  [s1 EXCEPT !.nodes = Append(@, v)]
SortChildren(h, ord, cs, st) ==
    IF cs = <<>> THEN st
    ELSE SortChildren(h, ord, Tail(cs), topological_sort(h, ord, Head(cs), st))

Reversed(s) == [i \in 1..Len(s) |-> s[Len(s) + 1 - i]]

\* for v in reversed(nodes): v._backward()   (an exception ends the loop)
RECURSIVE RunClosures(_, _, _)
RunClosures(h, vs, invoked) ==
    IF vs = <<>> THEN [heap |-> h, e |-> "none", invoked |-> invoked]
    ELSE LET c == CallBackward(h, Head(vs))
         IN  IF c.e # "none"
             THEN [heap |-> c.heap, e |-> c.e, invoked |-> Append(invoked, Head(vs))]
             ELSE RunClosures(c.heap, Tail(vs), Append(invoked, Head(vs)))

\* A backward that first zeroes the grad of every Tensor it reaches.
Tensor_backward_zeroing(h, self, ord) ==
    LET st == topological_sort(h, ord, self, [nodes |-> <<>>, visited |-> {}])
        seeded == [v \in DOMAIN h |->
                      IF v = self THEN [h[v] EXCEPT !.grad = ones_like(@)]
                      ELSE IF v \in st.visited THEN [h[v] EXCEPT !.grad = zeros_like(@)]
                      ELSE h[v]]
    IN  RunClosures(seeded, Reversed(st.nodes), <<>>)

\* Tensor.backward, with ord the iteration order of each set of children.
Tensor_backward(h, self, ord) ==
    LET st == topological_sort(h, ord, self, [nodes |-> <<>>, visited |-> {}])
        seeded == [h EXCEPT ![self].grad = ones_like(@)]
    IN  RunClosures(seeded, Reversed(st.nodes), <<>>)


\* ------------------------------------------------------------- NoTorch/nn.py

\* Module.parameters, Dense.parameters, MLP.parameters
RECURSIVE parameters(_)
parameters(m) ==
    CASE m.cls = "Dense" -> m.weights \o <<m.bias>>
      [] m.cls = "MLP" -> Concat([i \in 1..Len(m.layers) |-> parameters(m.layers[i])])
      [] OTHER -> <<>>

\* Module.zero_grad:  for p in self.parameters(): p.grad = np.zeros_like(p.grad)
RECURSIVE ZeroEach(_, _)
ZeroEach(h, ps) ==
    IF ps = <<>> THEN h
    ELSE ZeroEach([h EXCEPT ![Head(ps)].grad = zeros_like(@)], Tail(ps))

\* A reset that reaches every Tensor instead of the module's parameters.
zero_grad_all(h, m) == [v \in DOMAIN h |-> [h[v] EXCEPT !.grad = zeros_like(@)]]

zero_grad(h, m) == ZeroEach(h, parameters(m))

\* Dense.__init__: one weight Tensor of in_neurons elements per output neuron
\* (ws: the arrays np.random.randn produced, scaled), and a bias of ones.
RECURSIVE NewTensors(_, _)
NewTensors(w, arrs) ==
    IF arrs = <<>> THEN [heap |-> w.heap, uid |-> w.uid, ids |-> <<>>]
    ELSE LET t == TensorInit(w, NdArr(Head(arrs)))
             rest == NewTensors(World(t), Tail(arrs))
         IN  [rest EXCEPT !.ids = <<t.r.id>> \o @]

Dense_init(w, in_neurons, out_neurons, ws) ==
    LET wt == NewTensors(w, ws)
        b == TensorInit(World(wt), NdArr(Arr1([i \in 1..out_neurons |-> I(1)])))
    IN  [heap |-> b.heap, uid |-> b.uid,
         m |-> [cls |-> "Dense", in_neurons |-> in_neurons, out_neurons |-> out_neurons,
                weights |-> wt.ids, bias |-> b.r.id]]

\* MLP.__init__: Dense(in, h1), Dense(h1, h2), ..., Dense(hk, out); sizes is
\* <<in, h1, ..., hk, out>> and wss the weight arrays of each layer.
RECURSIVE MLP_layers(_, _, _)
MLP_layers(w, sizes, wss) ==
    IF Len(sizes) < 2 THEN [heap |-> w.heap, uid |-> w.uid, layers |-> <<>>]
    ELSE LET d == Dense_init(w, sizes[1], sizes[2], Head(wss))
             rest == MLP_layers(World(d), Tail(sizes), Tail(wss))
         IN  [rest EXCEPT !.layers = <<d.m>> \o @]

\* MLP.__init__(in_features, out_features, hidden_sizes), with wss the weight
\* arrays of each layer.
MLP_init(w, in_features, out_features, hidden_sizes, wss) ==
    LET ls == MLP_layers(w, <<in_features>> \o hidden_sizes \o <<out_features>>, wss)
    IN  [heap |-> ls.heap, uid |-> ls.uid, m |-> [cls |-> "MLP", layers |-> ls.layers]]

\* One statement after another: an exception raised by c ends the call;
\* otherwise F goes on from what c returned and left.
Then(c, F(_)) == IF c.e # "none" THEN c ELSE F(c)

\* [Tensor.sum1d(weight * x) for weight in self.weights]
RECURSIVE DenseSums(_, _, _)
DenseSums(w, weights, x) ==
    IF weights = <<>> THEN [heap |-> w.heap, uid |-> w.uid, r |-> <<>>, e |-> "none"]
    ELSE Then(Tensor_mul(w, Head(weights), x), LAMBDA p :
         Then(Tensor_sum1d(World(p), p.r), LAMBDA s :
         Then(DenseSums(World(s), Tail(weights), x), LAMBDA rest :
              [rest EXCEPT !.r = <<s.r>> \o @])))

\* Dense.__call__
Dense_call(w, m, x) ==
    Then(DenseSums(w, m.weights, x), LAMBDA sums :
    Then(Tensor_cat1d(World(sums), sums.r), LAMBDA c :
    Then(Tensor_add(World(c), c.r.id, TRef(m.bias)), LAMBDA a :
         Tensor_relu(World(a), a.r.id))))

\* MLP.__call__
RECURSIVE MLP_call(_, _, _)
MLP_call(w, layers, x) ==
    IF layers = <<>> THEN Ok(w, x)
    ELSE Then(Dense_call(w, Head(layers), x), LAMBDA y :
              MLP_call(World(y), Tail(layers), y.r))


\* ------------------------------------------------------------------ actions

W == [heap |-> heap, uid |-> unique_id]

\* What is recorded of a call: its name, the values passed, the value of the
\* id counter when it began, the value returned, the exception raised, and
\* for backward the closures invoked in order, whether every grad was zero
\* when it began, and whether the call before it was the same call.
Call(op, args, r, e, invoked, zeroed) ==
    [op |-> op, args |-> args, uid0 |-> unique_id, r |-> r, e |-> e,
     invoked |-> invoked, zeroed |-> zeroed,
     again |-> (last.op = op /\ last.args = args)]

NoCall == [op |-> "none", args |-> <<>>, uid0 |-> 0, r |-> None, e |-> "none",
           invoked |-> <<>>, zeroed |-> FALSE, again |-> FALSE]

Ids == DOMAIN heap

\* An operator call returns or raises, leaving the heap and the counter of c.
InRange(h) ==
    \A v \in DOMAIN h : \A k \in 1..Len(h[v].data.el) :
        Abs(h[v].data.el[k][1]) <= MaxValue /\ h[v].data.el[k][2] <= MaxValue

Returns(op, args, c) ==
    /\ c.e # "Unmodelled"
    /\ InRange(c.heap)
    /\ heap' = c.heap
    /\ unique_id' = c.uid
    /\ last' = Call(op, args, c.r, c.e, <<>>, FALSE)
    /\ ncalls' = ncalls + 1
    /\ UNCHANGED <<mods, nbackward>>

Add(self, other) == Returns("__add__", <<TRef(self), other>>, Tensor_add(W, self, other))
Mul(self, other) == Returns("__mul__", <<TRef(self), other>>, Tensor_mul(W, self, other))
Pow(self, other) == Returns("__pow__", <<TRef(self), other>>, Tensor_pow(W, self, other))
RPow(self, other) == Returns("__rpow__", <<TRef(self), other>>, Tensor_rpow(W, self, other))
Log(self) == Returns("log", <<TRef(self)>>, Tensor_log(W, self))
Sigmoid(self) == Returns("sigmoid", <<TRef(self)>>, Tensor_sigmoid(W, self))
Relu(self) == Returns("relu", <<TRef(self)>>, Tensor_relu(W, self))
Neg(self) == Returns("__neg__", <<TRef(self)>>, Tensor_neg(W, self))
RAdd(self, other) == Returns("__radd__", <<TRef(self), other>>, Tensor_radd(W, self, other))
Sub(self, other) == Returns("__sub__", <<TRef(self), other>>, Tensor_sub(W, self, other))
RSub(self, other) == Returns("__rsub__", <<TRef(self), other>>, Tensor_rsub(W, self, other))
RMul(self, other) == Returns("__rmul__", <<TRef(self), other>>, Tensor_rmul(W, self, other))
TrueDiv(self, other) ==
    Returns("__truediv__", <<TRef(self), other>>, Tensor_truediv(W, self, other))
RTrueDiv(self, other) ==
    Returns("__rtruediv__", <<TRef(self), other>>, Tensor_rtruediv(W, self, other))
MatVecMul(mat, vec) == Returns("mat_vec_mul", <<mat, vec>>, Tensor_mat_vec_mul(W, mat, vec))
Sum1d(tensor_in) == Returns("sum1d", <<tensor_in>>, Tensor_sum1d(W, tensor_in))
Cat1d(tensors) == Returns("cat1d", tensors, Tensor_cat1d(W, tensors))

AllZero(h) == \A v \in DOMAIN h : h[v].grad = zeros_like(h[v].grad)

\* self.backward(), for every order in which the sets of children may iterate.
Backward(self) ==
    /\ \E ord \in IterationOrders(heap, Reach(heap, self)) :
          LET b == Tensor_backward(heap, self, ord)
          IN  /\ heap' = b.heap
              /\ last' = Call("backward", <<TRef(self)>>, None, b.e, b.invoked, AllZero(heap))
    /\ nbackward' = nbackward + 1
    /\ UNCHANGED <<unique_id, mods, ncalls>>

\* ------------------------------------------- specification: arithmetic graphs

\* The leaf Tensors client code constructs before it builds a graph.
LeafSets ==
    {<<Num(2), Num(3), Num(5)>>,
     <<List(<<1, 2>>), Num(3)>>,
     <<Num(3), List(<<1, 2>>)>>}

RECURSIVE Leaves(_, _)
Leaves(w, vs) ==
    IF vs = <<>> THEN w ELSE Leaves(World(TensorInit(w, Head(vs))), Tail(vs))

InitWith(leafSets) ==
    /\ \E vs \in leafSets :
          LET w == Leaves([heap |-> <<>>, uid |-> 0], vs)
          IN  heap = w.heap /\ unique_id = w.uid
    /\ mods = <<>>
    /\ last = NoCall
    /\ ncalls = 0
    /\ nbackward = 0

Init == InitWith(LeafSets)

\* Graphs of + and * over the leaves (operands in order of construction), and
\* backward from any Tensor.
MayCall == ncalls < MaxCalls /\ ncalls + nbackward < MaxSteps
MayBackward == ncalls + nbackward < MaxSteps

Next ==
    \/ \E a, b \in Ids : MayCall /\ a <= b /\ Add(a, TRef(b))
    \/ \E a, b \in Ids : MayCall /\ a <= b /\ Mul(a, TRef(b))
    \/ \E t \in Ids : MayBackward /\ Backward(t)

Spec == Init /\ [][Next]_vars


\* ------------------------------------------------- properties of backward

\* The statements <<u, i>> (statement i of the closure of u, u in us) that add
\* to the grad of v an array of a shape that can be added to it.
Into(h, us, v) ==
    {p \in UNION {{<<u, i>> : i \in 1..Len(Statements(h, u))} : u \in us} :
        LET s == Statements(h, p[1])[p[2]]
        IN  s.t = v /\ s.e = "none" /\ IAddOk(h[v].grad, s.c)}

\* base plus the arrays the statements ps add, each computed from the grad
\* its closure's Tensor holds in h.
RECURSIVE PlusAll(_, _, _)
PlusAll(h, base, ps) ==
    IF ps = {} THEN base
    ELSE LET p == CHOOSE x \in ps : TRUE
         IN  PlusAll(h, np_add(base, Statements(h, p[1])[p[2]].c), ps \ {p})

\* The operand positions of the closures of us that hold v.
Uses(h, us, v) ==
    {p \in UNION {{<<u, i>> : i \in 1..Len(h[u].backward.args)} : u \in us} :
        h[p[1]].backward.args[p[2]] = v}

Terminal == last.args[1].id

\* C1: after a backward pass from a terminal that began with every grad zero,
\* a Tensor used more than once in the graph below the terminal (by several
\* Tensors, or twice by one operator) holds in grad the sum of what every
\* closure of that graph adds to it.
C1_FanOutSum ==
    (last.op = "backward" /\ last.zeroed) =>
        LET R == Reach(heap, Terminal)
        IN  \A v \in R \ {Terminal} :
                Cardinality(Uses(heap, R, v)) >= 2 =>
                    heap[v].grad = PlusAll(heap, zeros_like(heap[v].grad), Into(heap, R, v))

\* C1, its instance y = x + x: backward on y leaves 2 in every element of x.grad.
C1_XPlusX ==
    (last.op = "backward" /\ last.zeroed /\ heap[Terminal].backward.rule = "+"
        /\ heap[Terminal].backward.args[1] = heap[Terminal].backward.args[2]) =>
        LET x == heap[Terminal].backward.args[1]
        IN  heap[x].grad = np_add(ones_like(heap[x].grad), ones_like(heap[x].grad))

\* The graph z = (a * b) + (a * c) with a = 2, b = 3, c = 5.
IsZ(h, z) ==
    /\ h[z].backward.rule = "+"
    /\ LET m1 == h[z].backward.args[1]
           m2 == h[z].backward.args[2]
       IN  /\ h[m1].backward.rule = "*" /\ h[m2].backward.rule = "*"
           /\ h[m1].backward.args[1] = h[m2].backward.args[1]
           /\ h[h[m1].backward.args[1]].data = Vec(<<2>>)
           /\ h[h[m1].backward.args[2]].data = Vec(<<3>>)
           /\ h[h[m2].backward.args[2]].data = Vec(<<5>>)
           /\ \A l \in {h[m1].backward.args[1], h[m1].backward.args[2],
                        h[m2].backward.args[2]} : h[l].backward.rule = "None"

\* C2: backward invokes the closure of a Tensor only after the closures of all
\* the Tensors of the graph that have it as a child, each once, so that when a
\* closure runs its Tensor's grad holds all that the graph adds to it; and for
\* z = (a * b) + (a * c) with a = 2, b = 3, c = 5 the pass ends with z = 16,
\* a.grad = 8, b.grad = 2, c.grad = 2.
C2_Order ==
    last.op = "backward" =>
        LET R == Reach(heap, Terminal)
            inv == last.invoked
        IN  /\ \A i \in 1..Len(inv) :
                  /\ inv[i] \in R
                  /\ \A j \in 1..Len(inv) : inv[i] = inv[j] => i = j
                  /\ \A u \in R : inv[i] \in heap[u].prev =>
                        \E j \in 1..(i - 1) : inv[j] = u
                  /\ (last.zeroed /\ inv[i] # Terminal) =>
                        /\ Into(heap, R, inv[i]) = Uses(heap, R, inv[i])
                        /\ heap[inv[i]].grad =
                              PlusAll(heap, zeros_like(heap[inv[i]].grad),
                                      Into(heap, R, inv[i]))
            /\ last.e = "none" => Range(inv) = R
            /\ (last.zeroed /\ IsZ(heap, Terminal)) =>
                  LET m1 == heap[Terminal].backward.args[1]
                      m2 == heap[Terminal].backward.args[2]
                  IN  /\ last.e = "none"
                      /\ heap[Terminal].data = Vec(<<16>>)
                      /\ heap[heap[m1].backward.args[1]].grad = Vec(<<8>>)
                      /\ heap[heap[m1].backward.args[2]].grad = Vec(<<2>>)
                      /\ heap[heap[m2].backward.args[2]].grad = Vec(<<2>>)

C2_Witness ==
    /\ last.op = "backward" /\ last.zeroed /\ IsZ(heap, Terminal)
    /\ Len(last.invoked) = 6


\* The statements the closures of a backward pass ran: all those of every
\* closure invoked, but of a closure that raised only those before the one
\* that raised.
Raising(h, s) == s.e # "none" \/ ~IAddOk(h[s.t].grad, s.c)

Ran(h, inv, e) ==
    {p \in UNION {{<<inv[k], i>> : i \in 1..Len(Statements(h, inv[k]))} : k \in 1..Len(inv)} :
        (e # "none" /\ p[1] = inv[Len(inv)]) =>
            \A i \in 1..p[2] : ~Raising(h, Statements(h, p[1])[i])}

\* C6: backward zeroes no gradient, it only sets the terminal's grad to ones:
\* after a call the grad of every other Tensor of the graph is its grad before
\* the call plus what the closures of this call added to it (so a second call
\* on the same terminal without a reset accumulates), and no other field and
\* no other Tensor changes.
C6_Accumulates ==
    [][(last'.op = "backward" /\ nbackward' = nbackward + 1) =>
        LET t == last'.args[1].id
            R == Reach(heap, t)
            ran == Ran(heap', last'.invoked, last'.e)
        IN  /\ DOMAIN heap' = DOMAIN heap
            /\ \A v \in DOMAIN heap :
                  /\ heap'[v].data = heap[v].data
                  /\ heap'[v].children = heap[v].children
                  /\ heap'[v].prev = heap[v].prev
                  /\ heap'[v].grad.sh = heap[v].data.sh
                  /\ v \notin R => heap'[v].grad = heap[v].grad
                  /\ v = t => heap'[v].grad = ones_like(heap[v].data)
                  /\ (v \in R /\ v # t) =>
                        heap'[v].grad =
                            PlusAll(heap', heap[v].grad, {p \in ran : Statements(heap', p[1])[p[2]].t = v})
      ]_vars

\* A second backward on the same terminal, with a Tensor between the terminal
\* and the leaves, has run without a reset in between.
C6_Witness ==
    /\ last.op = "backward" /\ last.again /\ ~last.zeroed /\ last.e = "none"
    /\ \E v \in Reach(heap, Terminal) \ {Terminal} :
          /\ heap[v].prev # {}
          /\ heap[v].grad = np_add(ones_like(heap[v].grad), ones_like(heap[v].grad))


\* ------------------------------------- specification: sum1d and cat1d graphs

VecLeafSets == {<<List(<<1, 2>>), List(<<3, 4, 5>>)>>}

InitVec == InitWith(VecLeafSets)

TensorLists == {<<TRef(a)>> : a \in Ids} \cup {<<TRef(a), TRef(b)>> : a, b \in Ids}

NextVec ==
    \/ \E ts \in TensorLists : MayCall /\ Cat1d(ts)
    \/ \E a \in Ids : MayCall /\ Sum1d(TRef(a))
    \/ \E a, b \in Ids : MayCall /\ a <= b /\ Mul(a, TRef(b))
    \/ \E t \in Ids : MayBackward /\ Backward(t)

SpecVec == InitVec /\ [][NextVec]_vars

\* The elements of out.grad at the positions operand i of a cat1d holds in
\* the concatenation.
RECURSIVE Offset(_, _, _)
Offset(h, tensors, i) ==
    IF i = 1 THEN 0 ELSE Offset(h, tensors, i - 1) + Len(h[tensors[i - 1]].data.el)

SliceOf(h, out, i) ==
    LET a == h[out].backward.args
    IN  Arr1([k \in 1..Len(h[a[i]].data.el) |-> h[out].grad.el[Offset(h, a, i) + k]])

\* C3: after a backward pass that began with every grad zero, an operand a_i
\* of a cat1d whose closure ran, used nowhere else in the graph, holds in grad
\* the slice of out.grad at its own positions in the concatenation (and for
\* sizes [2, 3] and out.grad all ones, [1, 1] and [1, 1, 1]).
C3_Slices ==
    (last.op = "backward" /\ last.zeroed /\ last.e = "none") =>
        LET R == Reach(heap, Terminal)
        IN  \A c \in R : heap[c].backward.rule = "cat1d" =>
                \A i \in 1..Len(heap[c].backward.args) :
                    LET ai == heap[c].backward.args[i]
                    IN  Uses(heap, R, ai) = {<<c, i>>} =>
                            heap[ai].grad = SliceOf(heap, c, i)

\* The sum of the first n elements of s, from the last one down.
RECURSIVE Total(_, _)
Total(s, n) == IF n = 0 THEN I(0) ELSE QAdd(Total(s, n - 1), s[n])

\* C10: sum1d of a 1-D Tensor of n elements returns a Tensor of one element,
\* their sum; and a backward pass from it that began with every grad zero
\* leaves 1 in each of the n elements of the operand's grad.
C10_Sum1d ==
    /\ (last.op = "sum1d" /\ last.e = "none") =>
          LET x == heap[last.args[1].id].data
          IN  /\ Len(x.sh) = 1
              /\ heap[last.r.id].data = [sh |-> <<1>>, el |-> <<Total(x.el, Len(x.el))>>]
    /\ (last.op = "backward" /\ last.zeroed /\ heap[Terminal].backward.rule = "sum1d") =>
          LET x == heap[Terminal].backward.args[1]
          IN  /\ heap[x].grad.sh = heap[x].data.sh
              /\ \A k \in 1..Len(heap[x].data.el) : heap[x].grad.el[k] = I(1)

C10_Witness ==
    /\ last.op = "backward" /\ last.zeroed /\ heap[Terminal].backward.rule = "sum1d"
    /\ Len(heap[heap[Terminal].backward.args[1]].data.el) >= 3
    /\ heap[Terminal].data.el[1] # I(1)


\* ------------------------------ specification: every operator, any operand

OpLeafSets == {<<List(<<1, 2>>)>>, <<List(<<1, 1>>)>>}

InitOps == InitWith(OpLeafSets)

\* What client code passes as the other operand: a Tensor, a number, a list,
\* a float array, or a value of an unsupported type.
Literals == {Num(3), List(<<1, 2>>), NdArr(Vec(<<1, 2>>)), Str}
Operands == {TRef(a) : a \in Ids} \cup Literals
\* The left operands for which Python calls a reflected method of the Tensor
\* on the right.
LeftOperands == {Num(3), List(<<1, 2>>), Str}
Matrices == {NdArr(Mat(2, 2, <<1, 2, 3, 4>>)), Str} \cup {TRef(a) : a \in Ids}
ValueLists ==
    {<<a>> : a \in Operands \ {NdArr(Vec(<<1, 2>>))}}
        \cup {<<TRef(a), b>> : a \in Ids, b \in {TRef(c) : c \in Ids} \cup {Num(3), Str}}

MayOp == ncalls < MaxOpCalls /\ ncalls + nbackward < MaxOpSteps
MayOpBackward == ncalls + nbackward < MaxOpSteps

NextOps ==
    \/ \E a \in Ids, o \in Operands : MayOp /\ Add(a, o)
    \/ \E a \in Ids, o \in Operands : MayOp /\ Mul(a, o)
    \/ \E a \in Ids, o \in Operands : MayOp /\ Pow(a, o)
    \/ \E a \in Ids, o \in Operands : MayOp /\ Sub(a, o)
    \/ \E a \in Ids, o \in Operands : MayOp /\ TrueDiv(a, o)
    \/ \E a \in Ids, o \in LeftOperands : MayOp /\ RAdd(a, o)
    \/ \E a \in Ids, o \in LeftOperands : MayOp /\ RMul(a, o)
    \/ \E a \in Ids, o \in LeftOperands : MayOp /\ RPow(a, o)
    \/ \E a \in Ids, o \in LeftOperands : MayOp /\ RSub(a, o)
    \/ \E a \in Ids, o \in LeftOperands : MayOp /\ RTrueDiv(a, o)
    \/ \E a \in Ids : MayOp /\ Neg(a)
    \/ \E a \in Ids : MayOp /\ Log(a)
    \/ \E a \in Ids : MayOp /\ Sigmoid(a)
    \/ \E a \in Ids : MayOp /\ Relu(a)
    \/ \E m \in Matrices, v \in Operands : MayOp /\ MatVecMul(m, v)
    \/ \E o \in Operands : MayOp /\ Sum1d(o)
    \/ \E ts \in ValueLists : MayOp /\ Cat1d(ts)
    \/ \E t \in Ids : MayOpBackward /\ Backward(t)

SpecOps == InitOps /\ [][NextOps]_vars


\* An array summed down to the shape (1,) of a single-element operand, or as
\* it is for an operand of the array's own shape.
ReducedTo(c, sh) == IF c.sh = sh THEN c ELSE Arr1(<<Total(c.el, Len(c.el))>>)

\* C4: when + or * combined a Tensor of n elements with a single-element
\* Tensor (a coerced scalar literal, as in node + 3, node * 3, -node), a
\* backward pass from the result that began with every grad zero completes,
\* leaves each grad with the shape of its data, and gives each operand its
\* gradient (for the single-element operand, summed over the n elements).
C4_Broadcast ==
    (/\ last.op = "backward" /\ last.zeroed
     /\ heap[Terminal].backward.rule \in {"+", "*"}
     /\ heap[heap[Terminal].backward.args[1]].data.sh
            # heap[heap[Terminal].backward.args[2]].data.sh) =>
        /\ last.e = "none"
        /\ \A v \in Ids : heap[v].grad.sh = heap[v].data.sh
        /\ \A i \in 1..2 :
              LET o == heap[Terminal].backward.args[i]
              IN  heap[o].grad = ReducedTo(Statements(heap, Terminal)[i].c, heap[o].data.sh)

PrimitiveOps ==
    {"__add__", "__mul__", "__pow__", "log", "sigmoid", "relu", "mat_vec_mul", "sum1d", "cat1d"}

\* The operand Tensors of the last call: the Tensors passed, and the Tensors
\* the call made of the other values passed (those made before its result).
OperandNodes ==
    {last.args[i].id : i \in {j \in 1..Len(last.args) : last.args[j].k = "T"}}
        \cup {v \in Ids : last.uid0 <= v /\ v < last.r.id}

\* C5: the predecessors recorded on the Tensor a primitive operator returns
\* are exactly the operand Tensors of the call.
C5_Predecessors ==
    (last.op \in PrimitiveOps /\ last.e = "none") =>
        /\ heap[last.r.id].prev = OperandNodes
        /\ Range(heap[last.r.id].children) = OperandNodes

AllOps ==
    PrimitiveOps \cup {"__neg__", "__radd__", "__sub__", "__rsub__", "__rmul__",
                       "__truediv__", "__rtruediv__", "__rpow__"}

OperandErrors == {"NotImplementedError", "TypeError", "AttributeError"}

\* C8: every operator coerces its operands first: given numbers, lists of
\* numbers, float arrays and Tensors it does not fail on the type of an
\* operand, and what it returns is a Tensor.
C8_Coerces ==
    (last.op \in AllOps
        /\ \A i \in 1..Len(last.args) : last.args[i].k \in {"num", "list", "arr", "T"}) =>
        /\ last.e \notin OperandErrors
        /\ last.e = "none" => last.r.k = "T"

\* C9: an operator given an operand of an unsupported type fails on that
\* operand before any Tensor is made: no id is drawn from the counter and the
\* heap holds the Tensors it held when the call began.
C9_Unsupported ==
    (last.op \in AllOps /\ \E i \in 1..Len(last.args) : last.args[i].k = "str") =>
        /\ last.e \in OperandErrors
        /\ unique_id = last.uid0
        /\ \A v \in Ids : v < last.uid0


\* ------------------------------------------------ specification: NoTorch.nn

NNLeafSets == {<<List(<<1, 2>>)>>}

InitNN == InitWith(NNLeafSets)

Mod(i) == [k |-> "module", i |-> i]

\* The arrays np.random.randn may give a layer: one of in_neurons elements
\* for each output neuron.
WeightArrays(in_neurons) ==
    IF in_neurons = 1 THEN {Vec(<<-1>>)} ELSE {Vec(<<1, 2>>), Vec(<<1, -1>>)}

LayerWeights(in_neurons, out_neurons) == [1..out_neurons -> WeightArrays(in_neurons)]

\* m = Dense(in_neurons, out_neurons) or m = MLP(...): the module made joins
\* the modules client code holds.
Constructed(op, c) ==
    /\ heap' = c.heap
    /\ unique_id' = c.uid
    /\ mods' = Append(mods, c.m)
    /\ last' = Call(op, <<>>, Mod(Len(mods) + 1), "none", <<>>, FALSE)
    /\ ncalls' = ncalls + 1
    /\ UNCHANGED nbackward

NewDense(in_neurons, out_neurons, ws) ==
    Constructed("Dense", Dense_init(W, in_neurons, out_neurons, ws))

NewMLP(in_features, out_features, hidden_sizes, wss) ==
    Constructed("MLP", MLP_init(W, in_features, out_features, hidden_sizes, wss))

\* m(x)
ModuleCall(i, x) ==
    Returns("__call__", <<Mod(i), x>>,
            IF mods[i].cls = "Dense" THEN Dense_call(W, mods[i], x)
            ELSE MLP_call(W, mods[i].layers, x))

\* m.zero_grad() (recorded with it: whether every grad of m.parameters() was
\* zero when it began)
ZeroGrad(i) ==
    /\ heap' = zero_grad(heap, mods[i])
    /\ last' = Call("zero_grad", <<Mod(i)>>, None, "none", <<>>,
                    \A v \in Range(parameters(mods[i])) : heap[v].grad = zeros_like(heap[v].grad))
    /\ ncalls' = ncalls + 1
    /\ UNCHANGED <<unique_id, mods, nbackward>>

MayNN == ncalls + nbackward < MaxNNSteps
MayConstruct == MayNN /\ Len(mods) < MaxModules

\* The weight arrays of the layers of an MLP of the sizes given.
MLPWeights(sizes) ==
    {wss \in [1..(Len(sizes) - 1) -> UNION {LayerWeights(sizes[k], sizes[k + 1]) : k \in 1..(Len(sizes) - 1)}] :
        \A k \in 1..(Len(sizes) - 1) : wss[k] \in LayerWeights(sizes[k], sizes[k + 1])}

HiddenSizes == {<<>>, <<1>>}

\* What client code passes a module: the Tensor it made, or a list.
Inputs == {TRef(0), List(<<1, 2>>)}

NextNN ==
    \/ \E n \in 1..2 : \E ws \in LayerWeights(2, n) : MayConstruct /\ NewDense(2, n, ws)
    \/ \E hs \in HiddenSizes : \E wss \in MLPWeights(<<2>> \o hs \o <<1>>) :
          MayConstruct /\ NewMLP(2, 1, hs, wss)
    \/ \E i \in 1..Len(mods) : \E x \in Inputs : MayNN /\ ModuleCall(i, x)
    \/ \E t \in Ids : MayNN /\ nbackward < MaxNNBackward /\ Backward(t)
    \/ \E i \in 1..Len(mods) : MayNN /\ ZeroGrad(i)

SpecNN == InitNN /\ [][NextNN]_vars

\* C7: m.zero_grad() leaves the grad of every Tensor of m.parameters() all
\* zero with the shape it had, and changes no Tensor's data, children or
\* predecessors, nor the grad of any Tensor that is not one of m.parameters();
\* no Tensor is made.
C7_ZeroGrad ==
    [][last'.op = "zero_grad" =>
          LET ps == Range(parameters(mods[last'.args[1].i]))
          IN  /\ DOMAIN heap' = DOMAIN heap
              /\ unique_id' = unique_id
              /\ \A v \in Ids :
                    /\ heap'[v].data = heap[v].data
                    /\ heap'[v].children = heap[v].children
                    /\ heap'[v].prev = heap[v].prev
                    /\ v \in ps => /\ heap'[v].grad.sh = heap[v].grad.sh
                                   /\ heap'[v].grad = zeros_like(heap[v].grad)
                    /\ v \notin ps => heap'[v].grad = heap[v].grad]_vars

\* C7: zero_grad has run on a module some of whose parameters held a grad
\* that was not zero, while a Tensor that is not one of them holds one still.
C7_Witness ==
    /\ last.op = "zero_grad"
    /\ ~last.zeroed
    /\ LET ps == Range(parameters(mods[last.args[1].i]))
       IN  /\ ps # {}
           /\ \A v \in ps : heap[v].grad = zeros_like(heap[v].grad)
           /\ \E v \in Ids \ ps : heap[v].grad # zeros_like(heap[v].grad)
           /\ \E v \in Ids \ ps : heap[v].prev \cap ps # {}

====
